---- MODULE Spec2Model ----
(***************************************************************************)
(* Reconciliation engine of the agent asset library sync service:          *)
(* AssetSyncService.sync_from_github over a GitHub repository of manifest  *)
(* files and a Redis store made of per-asset hashes (asset:metadata:{id}), *)
(* per-category sets (asset:category:{c}), the global summary hash         *)
(* (asset:index), the sync-state hash (asset:sync:state) and the changed   *)
(* queue (asset:sync:changed).                                             *)
(***************************************************************************)
EXTENDS Integers, Sequences, FiniteSets, TLC

\* ------------------------------------------------------------------------
\* Bounds of the model
\* ------------------------------------------------------------------------
MaxClock == 1
MaxQueue == 2
MaxFaults == 1

\* ------------------------------------------------------------------------
\* Program constants
\* ------------------------------------------------------------------------
Keep == 1000

Categories == {"tool", "prompt", "skill"}

\* ------------------------------------------------------------------------
\* Finite universes of the inputs
\* ------------------------------------------------------------------------
Ids == {"a", "b"}

\* The manifest files of the repository in the order scan_manifests visits
\* them (a breadth-first walk of the sorted directory listings).
ScanOrder == <<"prompts/a/manifest.yaml", "tools/a/manifest.yaml">>

Paths == {ScanOrder[i] : i \in 1..Len(ScanOrder)}

Version(major, minor, patch, pre) ==
    [major |-> major, minor |-> minor, patch |-> patch, pre |-> pre]

Versions == {Version(1, 0, 0, ""), Version(1, 0, 1, "")}

\* A manifest file: the fields of ManifestData that the engine reads, and
\* whether the document passes yaml.safe_load + validate_and_parse.  Asset
\* "a" ranges over every category and version; asset "b" is a second asset
\* with one manifest.
ManifestOf(id, version, category, valid) ==
    [id |-> id, version |-> version, category |-> category, valid |-> valid]

ValidManifests ==
    {ManifestOf("a", v, c, TRUE) : v \in Versions, c \in Categories}
        \cup {ManifestOf("b", Version(1, 0, 0, ""), "prompt", TRUE)}

InvalidManifests == {ManifestOf("a", Version(1, 0, 0, ""), "tool", FALSE)}

Manifests == ValidManifests \cup InvalidManifests

\* ------------------------------------------------------------------------
\* State
\* ------------------------------------------------------------------------
VARIABLES
    repo,            \* repository: path -> manifest content (present files only)
    metadata,        \* asset:metadata:{id}: id -> StoredAsset (existing keys only)
    category_index,  \* asset:category:{c}: category -> set of ids
    global_index,    \* asset:index: id -> index entry (existing fields only)
    sync_state,      \* asset:sync:state hash
    changed,         \* asset:sync:changed list
    clock,           \* time.time(): one tick per repository commit
    faults,          \* number of store and fetch faults injected so far
    last,            \* the last call: its inputs, snapshot and SyncStats
    written,         \* id -> version last written by create_asset / update_asset
    procs            \* the full syncs in progress: process -> its local variables

vars == <<repo, metadata, category_index, global_index, sync_state, changed,
          clock, faults, last, written, procs>>

\* ------------------------------------------------------------------------
\* Small helpers on Redis hashes (functions with a finite domain)
\* ------------------------------------------------------------------------
Put(f, k, v) == [x \in (DOMAIN f) \cup {k} |-> IF x = k THEN v ELSE f[x]]

Del(f, k) == [x \in (DOMAIN f) \ {k} |-> f[x]]

Unset == "unset"

\* ------------------------------------------------------------------------
\* GitHubManager
\* ------------------------------------------------------------------------
\* The blob sha of a file is a digest of its content (not of its path).
\* The manifests of most runs leave the optional field author out; those
\* of the runs that follow it carry it (NoValue when the document has none).
Sha(content) ==
    IF "author" \in DOMAIN content
    THEN <<content.id, content.version, content.category, content.valid, content.author>>
    ELSE <<content.id, content.version, content.category, content.valid>>

GitHubFile(r, p) == [path |-> p, content |-> r[p], sha |-> Sha(r[p])]

RECURSIVE ScanFrom(_, _, _)
ScanFrom(r, unfetched, i) ==
    IF i > Len(ScanOrder) THEN <<>>
    ELSE LET p == ScanOrder[i]
         IN  IF p \in DOMAIN r /\ p \notin unfetched
             THEN <<GitHubFile(r, p)>> \o ScanFrom(r, unfetched, i + 1)
             ELSE ScanFrom(r, unfetched, i + 1)

\* scan_manifests: the manifest files in traversal order; a file whose fetch
\* fails is skipped with a warning.
scan_manifests(r, unfetched) == ScanFrom(r, unfetched, 1)

\* parse_manifest: None for a document that fails YAML parsing or validation.
parse_manifest_ok(file) == file.content.valid

Asset(file) ==
    IF "author" \in DOMAIN file.content
    THEN [id          |-> file.content.id,
          version     |-> file.content.version,
          category    |-> file.content.category,
          github_path |-> file.path,
          github_sha  |-> file.sha,
          author      |-> file.content.author]
    ELSE [id          |-> file.content.id,
          version     |-> file.content.version,
          category    |-> file.content.category,
          github_path |-> file.path,
          github_sha  |-> file.sha]

RECURSIVE ParseAll(_)
ParseAll(files) ==
    IF files = <<>> THEN <<>>
    ELSE IF parse_manifest_ok(Head(files))
         THEN <<Asset(Head(files))>> \o ParseAll(Tail(files))
         ELSE ParseAll(Tail(files))

fetch_and_parse_all(r, unfetched) == ParseAll(scan_manifests(r, unfetched))

\* ------------------------------------------------------------------------
\* models.py
\* ------------------------------------------------------------------------
\* to_stored_asset: now = datetime.now() is read at each conversion and
\* written to both created_at and updated_at.  The runs that follow the
\* timestamps hand the time of the conversion over with the asset (field
\* now); the other runs leave timestamps and author out of the record.
to_stored_asset(asset) ==
    IF "now" \in DOMAIN asset
    THEN [id          |-> asset.id,
          version     |-> asset.version,
          category    |-> asset.category,
          github_path |-> asset.github_path,
          github_sha  |-> asset.github_sha,
          created_at  |-> asset.now,
          updated_at  |-> asset.now,
          author      |-> asset.author]
    ELSE [id          |-> asset.id,
          version     |-> asset.version,
          category    |-> asset.category,
          github_path |-> asset.github_path,
          github_sha  |-> asset.github_sha]

\* ------------------------------------------------------------------------
\* RedisClient
\* ------------------------------------------------------------------------
make_index_entry(stored) ==
    [id |-> stored.id, category |-> stored.category, version |-> stored.version]

\* The store as one value, threaded through the steps of a call.
Store(m, c, g, q) == [metadata |-> m, category_index |-> c, global_index |-> g, changed |-> q]

CurrentStore == Store(metadata, category_index, global_index, changed)

remove_from_category(c, id, category) == [c EXCEPT ![category] = @ \ {id}]

add_to_category(c, id, category) == [c EXCEPT ![category] = @ \cup {id}]

\* StoredAsset.to_dict: the mapping given to HSET.  An optional field whose
\* value is None or empty is left out of it.  NoValue stands for None.
OptionalFields == {"author"}

NoValue == ""

to_dict(stored) ==
    [f \in {g \in DOMAIN stored : g \notin OptionalFields \/ stored[g] # NoValue}
        |-> stored[f]]

\* StoredAsset.from_dict: the record read back from a hash; an optional
\* field that the hash lacks reads as None.
from_dict(data) ==
    [f \in (DOMAIN data) \cup OptionalFields |->
        IF f \in DOMAIN data THEN data[f] ELSE NoValue]

\* HSET key mapping: sets the fields of the mapping and leaves the other
\* fields of an existing hash as they are.
hset(m, key, mapping) ==
    IF key \notin DOMAIN m THEN Put(m, key, mapping)
    ELSE Put(m, key, [f \in (DOMAIN m[key]) \cup (DOMAIN mapping) |->
                        IF f \in DOMAIN mapping THEN mapping[f] ELSE m[key][f]])

save_asset(m, stored) == hset(m, stored.id, to_dict(stored))

\* save_asset_atomic without the SREM of the previous category.
save_asset_atomic_KeepsOldCategory(st, stored, old_category) ==
    [st EXCEPT
        !.metadata       = save_asset(st.metadata, stored),
        !.category_index = add_to_category(st.category_index, stored.id, stored.category),
        !.global_index   = Put(st.global_index, stored.id, make_index_entry(stored))]

\* save_asset_atomic(asset, old_category): one MULTI/EXEC pipeline.
\* old_category is Unset for None.
save_asset_atomic(st, stored, old_category) ==
    LET c1 == IF old_category # Unset /\ old_category # stored.category
              THEN remove_from_category(st.category_index, stored.id, old_category)
              ELSE st.category_index
    IN  [st EXCEPT
            !.metadata       = save_asset(st.metadata, stored),
            !.category_index = add_to_category(c1, stored.id, stored.category),
            !.global_index   = Put(st.global_index, stored.id, make_index_entry(stored))]

\* delete_asset_atomic(asset_id): reads the record to learn its category;
\* returns False and does nothing when there is no record.
delete_asset_atomic_found(st, id) == id \in DOMAIN st.metadata

\* delete_asset_atomic without the HDEL on the global index.
delete_asset_atomic_KeepsSummary(st, id) ==
    IF ~delete_asset_atomic_found(st, id) THEN st
    ELSE [st EXCEPT
            !.category_index = remove_from_category(st.category_index, id, st.metadata[id].category),
            !.metadata       = Del(st.metadata, id)]

\* delete_asset_atomic without the SREM on the Category Index.
delete_asset_atomic_KeepsMembership(st, id) ==
    IF ~delete_asset_atomic_found(st, id) THEN st
    ELSE [st EXCEPT
            !.metadata       = Del(st.metadata, id),
            !.global_index   = Del(st.global_index, id)]

delete_asset_atomic(st, id) ==
    IF ~delete_asset_atomic_found(st, id) THEN st
    ELSE [st EXCEPT
            !.category_index = remove_from_category(st.category_index, id, st.metadata[id].category),
            !.metadata       = Del(st.metadata, id),
            !.global_index   = Del(st.global_index, id)]

add_changed_asset(st, id) == [st EXCEPT !.changed = Append(st.changed, id)]

\* LTRIM key 0 keep-1: the oldest entries are retained.
trim_changed_assets_KeepsOldest(q, keep) ==
    IF Len(q) <= keep THEN q ELSE SubSeq(q, 1, keep)

\* LTRIM key -keep -1
trim_changed_assets(q, keep) ==
    IF Len(q) <= keep THEN q ELSE SubSeq(q, Len(q) - keep + 1, Len(q))

\* ------------------------------------------------------------------------
\* AssetSyncService.sync_from_github
\* ------------------------------------------------------------------------
NoTime == 0 - 1

SyncStats ==
    [total_processed |-> 0, created |-> 0, updated |-> 0, deleted |-> 0,
     failed |-> 0, errors |-> <<>>]

\* Outcome of one store batch: "ok"; "false", a redis.RedisError that the
\* client turns into a False return; "raise", any other exception.
Outcomes == {"ok", "false", "raise"}

\* _should_update_asset without the comparison of the revisions.
_should_update_asset_NoSha(asset, existing) ==
    IF asset.id \notin DOMAIN existing THEN TRUE
    ELSE IF existing[asset.id].version # asset.version THEN TRUE
    ELSE FALSE

_should_update_asset(asset, existing) ==
    IF asset.id \notin DOMAIN existing THEN TRUE
    ELSE IF existing[asset.id].github_sha # asset.github_sha THEN TRUE
    ELSE IF existing[asset.id].version # asset.version THEN TRUE
    ELSE FALSE

old_category_of(asset, existing) ==
    IF asset.id \in DOMAIN existing THEN existing[asset.id].category ELSE Unset

\* The loop body without its try/except: an exception raised by the save
\* leaves the loop.
ProcessAsset_Uncaught(asset, out, existing, existing_ids, acc) ==
    IF ~_should_update_asset(asset, existing) THEN acc
    ELSE IF out = "ok"
         THEN [acc EXCEPT
                 !.store = add_changed_asset(
                             save_asset_atomic(acc.store, to_stored_asset(asset),
                                               old_category_of(asset, existing)),
                             asset.id),
                 !.stats = IF asset.id \notin existing_ids
                           THEN [@ EXCEPT !.created = @ + 1]
                           ELSE [@ EXCEPT !.updated = @ + 1]]
         ELSE IF out = "false"
              THEN [acc EXCEPT !.stats.failed = @ + 1,
                               !.stats.errors = Append(@, <<"Failed to save asset", asset.id>>)]
              ELSE [acc EXCEPT !.raised = TRUE]

\* The loop body classifying a save by the store as it is when the save
\* runs, not by the snapshot existing_ids.
ProcessAsset_CountsByStore(asset, out, existing, existing_ids, acc) ==
    IF ~_should_update_asset(asset, existing) THEN acc
    ELSE IF out = "ok"
         THEN [acc EXCEPT
                 !.store = add_changed_asset(
                             save_asset_atomic(acc.store, to_stored_asset(asset),
                                               old_category_of(asset, existing)),
                             asset.id),
                 !.stats = IF asset.id \notin DOMAIN acc.store.metadata
                           THEN [@ EXCEPT !.created = @ + 1]
                           ELSE [@ EXCEPT !.updated = @ + 1]]
         ELSE IF out = "false"
              THEN [acc EXCEPT !.stats.failed = @ + 1,
                               !.stats.errors = Append(@, <<"Failed to save asset", asset.id>>)]
              ELSE [acc EXCEPT !.stats.failed = @ + 1,
                               !.stats.errors = Append(@, <<"Error processing", asset.id>>)]

\* One iteration of the loop over github_assets, with its try/except.
\* acc = [store, stats, raised]; raised: an exception has left the loop.
ProcessAsset(asset, out, existing, existing_ids, acc) ==
    IF ~_should_update_asset(asset, existing) THEN acc
    ELSE IF out = "ok"
         THEN [acc EXCEPT
                 !.store = add_changed_asset(
                             save_asset_atomic(acc.store, to_stored_asset(asset),
                                               old_category_of(asset, existing)),
                             asset.id),
                 !.stats = IF asset.id \notin existing_ids
                           THEN [@ EXCEPT !.created = @ + 1]
                           ELSE [@ EXCEPT !.updated = @ + 1]]
         ELSE IF out = "false"
              THEN [acc EXCEPT !.stats.failed = @ + 1,
                               !.stats.errors = Append(@, <<"Failed to save asset", asset.id>>)]
              ELSE [acc EXCEPT !.stats.failed = @ + 1,
                               !.stats.errors = Append(@, <<"Error processing", asset.id>>)]

RECURSIVE ProcessAssets(_, _, _, _, _, _)
ProcessAssets(assets, outs, existing, existing_ids, i, acc) ==
    IF i > Len(assets) \/ acc.raised THEN acc
    ELSE ProcessAssets(assets, outs, existing, existing_ids, i + 1,
                       ProcessAsset(assets[i], outs[i], existing, existing_ids, acc))

\* One iteration of the loop over deleted_ids: the return value of
\* delete_asset_atomic is not read, only an exception is recorded.
DeleteOne(id, out, acc) ==
    IF out = "ok" THEN [acc EXCEPT !.store = delete_asset_atomic(acc.store, id)]
    ELSE IF out = "false" THEN acc
    ELSE [acc EXCEPT !.stats.errors = Append(@, <<"Failed to delete", id>>)]

RECURSIVE DeleteAll(_, _, _)
DeleteAll(ids, outs, acc) ==
    IF ids = {} THEN acc
    ELSE LET id == CHOOSE x \in ids : TRUE
         IN  DeleteAll(ids \ {id}, outs, DeleteOne(id, outs[id], acc))

AssetIds(assets) == {assets[i].id : i \in 1..Len(assets)}

\* The try block writing the number of parsed manifests, not of distinct
\* ids, as synced_count.
SyncTry_CountsFiles(scan_ok, assets, st, ss, now, save_out, del_out) ==
    IF ~scan_ok
    THEN [store |-> st, stats |-> SyncStats, raised |-> TRUE, sync_state |-> ss]
    ELSE LET existing     == st.metadata
             existing_ids == DOMAIN existing
             github_ids   == AssetIds(assets)
             acc0         == [store |-> st,
                              stats |-> [SyncStats EXCEPT !.total_processed = Len(assets)],
                              raised |-> FALSE]
             acc1         == ProcessAssets(assets, save_out, existing, existing_ids, 1, acc0)
             deleted_ids  == existing_ids \ github_ids
             acc2         == IF deleted_ids # {} /\ ~acc1.raised
                             THEN DeleteAll(deleted_ids, del_out,
                                            [acc1 EXCEPT !.stats.deleted = Cardinality(deleted_ids)])
                             ELSE acc1
         IN  IF acc2.raised
             THEN [store |-> acc2.store, stats |-> acc2.stats, raised |-> TRUE,
                   sync_state |-> ss]
             ELSE [store      |-> [acc2.store EXCEPT
                                      !.changed = trim_changed_assets(@, Keep)],
                   stats      |-> acc2.stats,
                   raised     |-> FALSE,
                   sync_state |-> [ss EXCEPT !.last_sync_time = now,
                                             !.synced_count = Len(assets)]]

\* The try block, lines 114-177.  A scan that raises GithubException leaves
\* it at once; otherwise the loops run and the sync state is written.
SyncTry(scan_ok, assets, st, ss, now, save_out, del_out) ==
    IF ~scan_ok
    THEN [store |-> st, stats |-> SyncStats, raised |-> TRUE, sync_state |-> ss]
    ELSE LET existing     == st.metadata
             existing_ids == DOMAIN existing
             github_ids   == AssetIds(assets)
             acc0         == [store |-> st,
                              stats |-> [SyncStats EXCEPT !.total_processed = Len(assets)],
                              raised |-> FALSE]
             acc1         == ProcessAssets(assets, save_out, existing, existing_ids, 1, acc0)
             deleted_ids  == existing_ids \ github_ids
             acc2         == IF deleted_ids # {} /\ ~acc1.raised
                             THEN DeleteAll(deleted_ids, del_out,
                                            [acc1 EXCEPT !.stats.deleted = Cardinality(deleted_ids)])
                             ELSE acc1
         IN  IF acc2.raised
             THEN [store |-> acc2.store, stats |-> acc2.stats, raised |-> TRUE,
                   sync_state |-> ss]
             ELSE [store      |-> [acc2.store EXCEPT
                                      !.changed = trim_changed_assets(@, Keep)],
                   stats      |-> acc2.stats,
                   raised     |-> FALSE,
                   sync_state |-> [ss EXCEPT !.last_sync_time = now,
                                             !.synced_count = Cardinality(github_ids)]]

\* The except clause resetting synced_count as well.
SyncExcept_ResetsCount(res) ==
    IF res.raised
    THEN [res EXCEPT !.stats.errors = Append(@, <<"Sync failed", "">>),
                     !.sync_state.sync_status = "failed",
                     !.sync_state.synced_count = 0]
    ELSE res

\* The except clause: record the error and set "failed" before re-raising.
SyncExcept(res) ==
    IF res.raised
    THEN [res EXCEPT !.stats.errors = Append(@, <<"Sync failed", "">>),
                     !.sync_state.sync_status = "failed"]
    ELSE res

\* The finally clause.
SyncFinally(res) ==
    IF res.stats.failed = 0
    THEN [res EXCEPT !.sync_state.sync_status = "idle"]
    ELSE res

\* The positions of github_assets whose save is attempted.
NeedsWrite(assets, existing) ==
    {i \in 1..Len(assets) : _should_update_asset(assets[i], existing)}

NoCall ==
    [op |-> "none", caller |-> "none", raised |-> FALSE, existing |-> <<>>, unfetched |-> {},
     save_out |-> <<>>, del_out |-> <<>>, stats |-> SyncStats,
     faultfree |-> FALSE, repeat |-> FALSE, prev |-> [op |-> "other"]]

\* The calls of the write-back path, and what a later call remembers of the
\* call before it.
WriteBackOps == {"create", "update", "delete"}

Summary(call) ==
    IF call.op \in WriteBackOps
    THEN [op |-> call.op, id |-> call.id, ok |-> call.ok,
          store_failed |-> call.store_called /\ call.store_out # "ok"]
    ELSE [op |-> "other"]

\* The processes that can run a full sync side by side, and their local
\* variables when none is running.
Procs == {"s1", "s2"}

NoProcs == [p \in Procs |-> [pc |-> "idle"]]

\* Number of faults injected into one call.
Faults(unfetched, save_out, del_out) ==
    Cardinality(unfetched)
    + Cardinality({i \in DOMAIN save_out : save_out[i] # "ok"})
    + Cardinality({d \in DOMAIN del_out : del_out[d] # "ok"})

\* ------------------------------------------------------------------------
\* Initial state: an empty store, and a repository holding any manifests.
\* ------------------------------------------------------------------------
Repos == UNION {[ps -> Manifests] : ps \in SUBSET Paths}

Init ==
    /\ repo \in Repos
    /\ metadata = <<>>
    /\ category_index = [c \in Categories |-> {}]
    /\ global_index = <<>>
    /\ sync_state = [sync_status |-> Unset, last_sync_time |-> NoTime, synced_count |-> NoTime]
    /\ changed = <<>>
    /\ clock = 0
    /\ faults = 0
    /\ last = NoCall
    /\ written = <<>>
    /\ procs = NoProcs

\* ------------------------------------------------------------------------
\* Environment: commits pushed to the repository by other writers.  A commit
\* writes one manifest file, or removes one or more of them, and advances
\* the time.
\* ------------------------------------------------------------------------
RepoWrite(p, m) ==
    /\ clock < MaxClock
    /\ ~(p \in DOMAIN repo /\ repo[p] = m)
    /\ repo' = Put(repo, p, m)
    /\ clock' = clock + 1
    /\ last' = [NoCall EXCEPT !.op = "commit"]
    /\ UNCHANGED <<metadata, category_index, global_index, sync_state, changed, faults,
                   written, procs>>

RepoRemove(ps) ==
    /\ clock < MaxClock
    /\ ps # {}
    /\ ps \subseteq DOMAIN repo
    /\ repo' = [p \in (DOMAIN repo) \ ps |-> repo[p]]
    /\ clock' = clock + 1
    /\ last' = [NoCall EXCEPT !.op = "commit"]
    /\ UNCHANGED <<metadata, category_index, global_index, sync_state, changed, faults,
                   written, procs>>

\* ------------------------------------------------------------------------
\* sync_from_github as one step: set "syncing", run the try block, then the
\* except and finally clauses.  caller is "caller" for a call from outside
\* the service and "incremental_sync" for the call that incremental_sync
\* makes.
\* ------------------------------------------------------------------------
sync_from_github(caller, scan_ok, unfetched, assets, save_out, del_out) ==
    /\ \E res \in {SyncFinally(SyncExcept(
                      SyncTry(scan_ok, assets, CurrentStore,
                              [sync_state EXCEPT !.sync_status = "syncing"],
                              clock, save_out, del_out)))} :
           /\ metadata' = res.store.metadata
           /\ category_index' = res.store.category_index
           /\ global_index' = res.store.global_index
           /\ changed' = res.store.changed
           /\ sync_state' = res.sync_state
           /\ last' = [op        |-> "sync",
                       caller    |-> caller,
                       raised    |-> res.raised,
                       existing  |-> metadata,
                       unfetched |-> unfetched,
                       save_out  |-> save_out,
                       del_out   |-> del_out,
                       stats     |-> res.stats,
                       faultfree |-> scan_ok /\ Faults(unfetched, save_out, del_out) = 0,
                       repeat    |-> last.op = "sync" /\ ~last.raised /\ last.faultfree,
                       prev      |-> Summary(last)]
    /\ faults' = faults + Faults(unfetched, save_out, del_out)
    /\ UNCHANGED <<repo, clock, written, procs>>

\* A call whose repository scan raises.
SyncAborted ==
    /\ Len(changed) <= MaxQueue
    /\ sync_from_github("caller", FALSE, {}, <<>>, <<>>, <<>>)

\* A call whose scan succeeds, under every combination of faults: files whose
\* fetch fails, and an outcome for each save and each delete it attempts.
SyncScanned ==
    \E unfetched \in SUBSET (DOMAIN repo) :
    \E assets \in {fetch_and_parse_all(repo, unfetched)} :
    \E save_out \in [1..Len(assets) -> Outcomes] :
    \E del_out \in [(DOMAIN metadata) \ AssetIds(assets) -> Outcomes] :
       /\ faults + Faults(unfetched, save_out, del_out) <= MaxFaults
       /\ \A i \in 1..Len(assets) :
             i \notin NeedsWrite(assets, metadata) => save_out[i] = "ok"
       /\ sync_from_github("caller", TRUE, unfetched, assets, save_out, del_out)

\* ... in the runs that bound the queue by the number of syncs.
SyncCompleted ==
    /\ Len(changed) <= MaxQueue
    /\ SyncScanned

Next ==
    \/ \E p \in Paths, m \in Manifests : RepoWrite(p, m)
    \/ \E ps \in SUBSET Paths : RepoRemove(ps)
    \/ SyncAborted
    \/ SyncCompleted

Spec == Init /\ [][Next]_vars

\* ========================================================================
\* Runs on a long Changed-Assets Queue
\* ========================================================================
\* A queue as earlier syncs leave it: n entries, the oldest being "b".
QueueOf(n) == [i \in 1..n |-> IF i = 1 THEN "b" ELSE "a"]

QueuedManifests ==
    {ManifestOf("a", Version(1, 0, 0, ""), "tool", TRUE),
     ManifestOf("b", Version(1, 0, 0, ""), "prompt", TRUE)}

InitQueue ==
    /\ repo \in {r \in Repos : \A p \in DOMAIN r : r[p] \in QueuedManifests}
    /\ metadata = <<>>
    /\ category_index = [c \in Categories |-> {}]
    /\ global_index = <<>>
    /\ sync_state = [sync_status |-> "idle", last_sync_time |-> 0, synced_count |-> 0]
    /\ changed \in {QueueOf(n) : n \in (Keep - 2)..Keep}
    /\ clock = 0
    /\ faults = 0
    /\ last = NoCall
    /\ written = <<>>
    /\ procs = NoProcs

NextQueue ==
    \/ \E p \in Paths, m \in QueuedManifests : RepoWrite(p, m)
    \/ \E ps \in SUBSET Paths : RepoRemove(ps)
    \/ SyncScanned

SpecQueue == InitQueue /\ [][NextQueue]_vars

\* ========================================================================
\* incremental_sync
\* ========================================================================
\* get_last_sync_time: None (NoTime) when the sync state holds no
\* last_sync_time.
get_last_sync_time(ss) == ss.last_sync_time

\* get_commits_since: the commits dated at or after the timestamp, or an
\* empty list when the request fails with GithubException.  The clock counts
\* the commits: a sync stamped k ran after commit k and before commit k + 1,
\* so the commits dated at or after its timestamp are those numbered above k.
get_commits_since(now, since_timestamp, commits_ok) ==
    IF commits_ok THEN {k \in 1..now : k > since_timestamp} ELSE {}

\* incremental_sync returning empty stats when no last_sync_time is recorded.
incremental_sync_runs_full_NeedsTime(ss, now, commits_ok) ==
    /\ get_last_sync_time(ss) # NoTime
    /\ get_commits_since(now, get_last_sync_time(ss), commits_ok) # {}

\* Whether incremental_sync goes on to sync_from_github.
incremental_sync_runs_full(ss, now, commits_ok) ==
    IF get_last_sync_time(ss) = NoTime THEN TRUE
    ELSE get_commits_since(now, get_last_sync_time(ss), commits_ok) # {}

incremental_sync(commits_ok, scan_ok, unfetched, assets, save_out, del_out) ==
    IF incremental_sync_runs_full(sync_state, clock, commits_ok)
    THEN /\ commits_ok \/ get_last_sync_time(sync_state) # NoTime
         /\ sync_from_github("incremental_sync", scan_ok, unfetched, assets, save_out, del_out)
    ELSE /\ scan_ok /\ unfetched = {}
         /\ \A i \in DOMAIN save_out : save_out[i] = "ok"
         /\ \A d \in DOMAIN del_out : del_out[d] = "ok"
         /\ faults + (IF commits_ok THEN 0 ELSE 1) <= MaxFaults
         /\ faults' = faults + (IF commits_ok THEN 0 ELSE 1)
         /\ last' = [NoCall EXCEPT !.op = "skip", !.caller = "incremental_sync",
                                   !.faultfree = commits_ok]
         /\ UNCHANGED <<repo, metadata, category_index, global_index, sync_state,
                        changed, clock, written, procs>>

\* A call of incremental_sync under every outcome of the commit request,
\* of the scan and of the store batches.
IncrementalSync ==
    /\ Len(changed) <= MaxQueue
    /\ \E commits_ok \in BOOLEAN, scan_ok \in BOOLEAN :
       \E unfetched \in (IF scan_ok THEN SUBSET (DOMAIN repo) ELSE {{}}) :
       \E assets \in {IF scan_ok THEN fetch_and_parse_all(repo, unfetched) ELSE <<>>} :
       \E save_out \in [1..Len(assets) -> Outcomes] :
       \E del_out \in [(IF scan_ok THEN (DOMAIN metadata) \ AssetIds(assets) ELSE {})
                          -> Outcomes] :
          /\ faults + Faults(unfetched, save_out, del_out) <= MaxFaults
          /\ \A i \in 1..Len(assets) :
                i \notin NeedsWrite(assets, metadata) => save_out[i] = "ok"
          /\ incremental_sync(commits_ok, scan_ok, unfetched, assets, save_out, del_out)

\* The runs of incremental_sync: one asset committed, changed and removed by
\* other writers, and the poller calling incremental_sync.
PolledManifests == {m \in ValidManifests : m.id = "a" /\ m.category = "tool"}

NextIncremental ==
    \/ \E m \in PolledManifests : RepoWrite("tools/a/manifest.yaml", m)
    \/ RepoRemove({"tools/a/manifest.yaml"})
    \/ IncrementalSync

InitIncremental ==
    /\ Init
    /\ \A p \in DOMAIN repo : repo[p] \in PolledManifests

SpecIncremental == InitIncremental /\ [][NextIncremental]_vars

\* ========================================================================
\* Write-back path: create_asset, update_asset, delete_asset
\* ========================================================================
MaxWrites == 2

\* manifest_data.get("id") of a dictionary without an id.
NoId == ""

\* save_to_github: f"{category}s/{asset_id}/manifest.yaml"
ManifestPath(category, asset_id) == category \o "s/" \o asset_id \o "/manifest.yaml"

\* get_asset_by_id: the first manifest in scan order that parses and
\* declares the id, or None.
asset_exists_in_github(r, asset_id) ==
    asset_id \in AssetIds(fetch_and_parse_all(r, {}))

get_asset_by_id(r, asset_id) ==
    LET assets == fetch_and_parse_all(r, {})
        first  == CHOOSE i \in 1..Len(assets) :
                     /\ assets[i].id = asset_id
                     /\ \A j \in 1..(i - 1) : assets[j].id # asset_id
    IN  assets[first]

\* _increment_version: version.split("."), then int(parts[2]) + 1.  With a
\* pre-release suffix parts[2] is "PATCH-suffix" and int() raises ValueError.
_increment_version_raises(version) == version.pre # ""

_increment_version(version) == [version EXCEPT !.patch = @ + 1]

\* The file that yaml.dump(manifest_data) produces: it parses back into a
\* valid manifest only if the dictionary is one and has an id.
ContentOf(manifest_data) ==
    ManifestOf(manifest_data.id, manifest_data.version, manifest_data.category,
               manifest_data.valid /\ manifest_data.id # NoId)

\* Outcome of a repository write or delete: "ok"; "fail", a GithubException
\* of a status other than 404 (a conflict, a server error), which the
\* manager turns into (False, message); "notfound", a rejection answered
\* with status 404 at every attempt.
GithubOutcomes == {"ok", "fail", "notfound"}

\* The write requests save_to_github sends.  Its inner try block holds both
\* get_contents and update_file: when the file exists and update_file is
\* answered with 404, the handler goes on to create_file.
save_to_github_writes(r, target_path, github_out) ==
    IF github_out = "notfound" /\ target_path \in DOMAIN r THEN 2 ELSE 1

\* delete_from_github sends one delete_file.
delete_from_github_writes(github_out) == 1

\* What a write-back call leaves: the repository, the store, the returned
\* success flag, whether it raised, whether the repository and store calls
\* were made, and the path and version it wrote.
Rejected(r, st) ==
    [repo |-> r, store |-> st, ok |-> FALSE, raised |-> FALSE,
     github_called |-> FALSE, github_writes |-> 0, store_called |-> FALSE,
     wrote |-> FALSE]

\* The "Sync to Redis" block of create_asset and update_asset.
SyncToRedis(r, st, asset_id, old_category, store_out) ==
    IF asset_exists_in_github(r, asset_id) /\ store_out = "ok"
    THEN save_asset_atomic(st, to_stored_asset(get_asset_by_id(r, asset_id)), old_category)
    ELSE st

\* create_asset without the asset_exists_in_github check.
create_asset_result_NoExistsCheck(r, st, manifest_data, github_out, store_out) ==
    LET asset_id == manifest_data.id
        path     == ManifestPath(manifest_data.category, asset_id)
        r2       == Put(r, path, ContentOf(manifest_data))
    IN  IF asset_id = NoId THEN Rejected(r, st)
        ELSE IF github_out # "ok"
             THEN [Rejected(r, st) EXCEPT !.github_called = TRUE,
                                           !.github_writes = save_to_github_writes(r, path, github_out)]
             ELSE [repo |-> r2,
                   store |-> SyncToRedis(r2, st, asset_id, Unset, store_out),
                   ok |-> TRUE, raised |-> FALSE,
                   github_called |-> TRUE, github_writes |-> 1,
                   store_called |-> asset_exists_in_github(r2, asset_id),
                   wrote |-> TRUE, path |-> path, version |-> manifest_data.version]

create_asset_result(r, st, manifest_data, github_out, store_out) ==
    LET asset_id == manifest_data.id
        path     == ManifestPath(manifest_data.category, asset_id)
        r2       == Put(r, path, ContentOf(manifest_data))
    IN  IF asset_id = NoId THEN Rejected(r, st)
        ELSE IF asset_exists_in_github(r, asset_id) THEN Rejected(r, st)
        ELSE IF github_out # "ok"
             THEN [Rejected(r, st) EXCEPT !.github_called = TRUE,
                                           !.github_writes = save_to_github_writes(r, path, github_out)]
             ELSE [repo |-> r2,
                   store |-> SyncToRedis(r2, st, asset_id, Unset, store_out),
                   ok |-> TRUE, raised |-> FALSE,
                   github_called |-> TRUE, github_writes |-> 1,
                   store_called |-> asset_exists_in_github(r2, asset_id),
                   wrote |-> TRUE, path |-> path, version |-> manifest_data.version]

update_asset_result(r, st, asset_id, manifest_data, github_out, store_out) ==
    IF ~asset_exists_in_github(r, asset_id) THEN Rejected(r, st)
    ELSE LET existing == get_asset_by_id(r, asset_id)
         IN  IF _increment_version_raises(existing.version)
             THEN [Rejected(r, st) EXCEPT !.raised = TRUE]
             ELSE LET data == [manifest_data EXCEPT
                                  !.version = _increment_version(existing.version)]
                      r2   == Put(r, existing.github_path, ContentOf(data))
                  IN  IF github_out # "ok"
                      THEN [Rejected(r, st) EXCEPT !.github_called = TRUE,
                                           !.github_writes = save_to_github_writes(r, existing.github_path, github_out)]
                      ELSE [repo |-> r2,
                            store |-> SyncToRedis(r2, st, asset_id, existing.category,
                                                  store_out),
                            ok |-> TRUE, raised |-> FALSE,
                            github_called |-> TRUE, github_writes |-> 1,
                            store_called |-> asset_exists_in_github(r2, asset_id),
                            wrote |-> TRUE, path |-> existing.github_path,
                            version |-> data.version]

\* delete_asset deleting from the store before it looks at the result of
\* delete_from_github.
delete_asset_result_StoreFirst(r, st, asset_id, github_out, store_out) ==
    IF ~asset_exists_in_github(r, asset_id) THEN Rejected(r, st)
    ELSE LET existing == get_asset_by_id(r, asset_id)
         IN  IF github_out # "ok"
             THEN [Rejected(r, delete_asset_atomic(st, asset_id)) EXCEPT
                      !.github_called = TRUE,
                      !.github_writes = delete_from_github_writes(github_out)]
             ELSE [repo |-> Del(r, existing.github_path),
                   store |-> IF store_out = "ok" THEN delete_asset_atomic(st, asset_id)
                             ELSE st,
                   ok |-> TRUE, raised |-> FALSE,
                   github_called |-> TRUE, github_writes |-> 1, store_called |-> TRUE,
                   wrote |-> FALSE, path |-> existing.github_path]

delete_asset_result(r, st, asset_id, github_out, store_out) ==
    IF ~asset_exists_in_github(r, asset_id) THEN Rejected(r, st)
    ELSE LET existing == get_asset_by_id(r, asset_id)
         IN  IF github_out # "ok"
             THEN [Rejected(r, st) EXCEPT !.github_called = TRUE,
                                           !.github_writes = delete_from_github_writes(github_out)]
             ELSE [repo |-> Del(r, existing.github_path),
                   store |-> IF store_out = "ok" THEN delete_asset_atomic(st, asset_id)
                             ELSE st,
                   ok |-> TRUE, raised |-> FALSE,
                   github_called |-> TRUE, github_writes |-> 1, store_called |-> TRUE,
                   wrote |-> FALSE, path |-> existing.github_path]

\* Number of faults injected into one write-back call.
WriteFaults(github_out, store_out) ==
    (IF github_out # "ok" THEN 1 ELSE 0) + (IF store_out # "ok" THEN 1 ELSE 0)

\* The calls the model makes: at most MaxWrites commits and MaxFaults faults.
WriteBackEnabled(github_out, store_out) ==
    /\ clock < MaxWrites
    /\ faults + WriteFaults(github_out, store_out) <= MaxFaults

\* A write-back call as one step.  res is what the call leaves; an outcome
\* other than "ok" is drawn only for a call that is made.
WriteBack(op, asset_id, manifest_data, github_out, store_out, res) ==
    /\ github_out # "ok" => res.github_called
    /\ store_out # "ok" => res.store_called
    /\ repo' = res.repo
    /\ metadata' = res.store.metadata
    /\ category_index' = res.store.category_index
    /\ global_index' = res.store.global_index
    /\ changed' = res.store.changed
    /\ clock' = IF res.ok THEN clock + 1 ELSE clock
    /\ faults' = faults + WriteFaults(github_out, store_out)
    /\ written' = IF res.wrote THEN Put(written, asset_id, res.version) ELSE written
    /\ last' = [op |-> op, id |-> asset_id,
                category |-> manifest_data.category,
                valid |-> manifest_data.valid /\ manifest_data.id = asset_id,
                ok |-> res.ok, raised |-> res.raised,
                github_called |-> res.github_called, github_out |-> github_out,
                github_writes |-> res.github_writes,
                store_called |-> res.store_called, store_out |-> store_out,
                resolvable |-> asset_exists_in_github(repo, asset_id),
                path |-> IF res.ok THEN res.path ELSE ""]
    /\ UNCHANGED <<sync_state, procs>>

create_asset(manifest_data, github_out, store_out) ==
    /\ WriteBackEnabled(github_out, store_out)
    /\ \E res \in {create_asset_result(repo, CurrentStore, manifest_data,
                                       github_out, store_out)} :
           WriteBack("create", manifest_data.id, manifest_data, github_out, store_out, res)

update_asset(asset_id, manifest_data, github_out, store_out) ==
    /\ WriteBackEnabled(github_out, store_out)
    /\ \E res \in {update_asset_result(repo, CurrentStore, asset_id, manifest_data,
                                       github_out, store_out)} :
           WriteBack("update", asset_id, manifest_data, github_out, store_out, res)

delete_asset(asset_id, github_out, store_out) ==
    /\ WriteBackEnabled(github_out, store_out)
    /\ \E res \in {delete_asset_result(repo, CurrentStore, asset_id, github_out, store_out)} :
           WriteBack("delete", asset_id,
                     [id |-> asset_id, category |-> Unset, valid |-> FALSE],
                     github_out, store_out, res)

\* The manifest dictionaries that callers pass: asset "a" in every category,
\* released or pre-release, a dictionary that fails validation, and one
\* without an id.  create_asset is called with those whose default path is
\* a path of the model; update_asset with released and pre-release versions
\* supplied (it overwrites the supplied version).
WriteVersions == {Version(1, 0, 0, ""), Version(1, 0, 0, "beta")}

ManifestDicts ==
    {ManifestOf("a", v, c, TRUE) : v \in WriteVersions, c \in Categories}
        \cup {ManifestOf("a", Version(1, 0, 0, ""), "tool", FALSE),
              ManifestOf(NoId, Version(1, 0, 0, ""), "tool", TRUE)}

CreateDicts ==
    {d \in ManifestDicts : d.id = NoId \/ ManifestPath(d.category, d.id) \in Paths}

UpdateDicts ==
    {d \in ManifestDicts : d.id # NoId /\ (d.version.pre = "" \/ d.category = "tool")}

\* Initial repositories of the write-back runs: empty, one asset (released
\* or pre-release), and two manifests declaring the same id.
WriteRepos ==
    {<<>>,
     [p \in {"tools/a/manifest.yaml"} |-> ManifestOf("a", Version(1, 0, 0, ""), "tool", TRUE)],
     [p \in {"tools/a/manifest.yaml"} |-> ManifestOf("a", Version(1, 0, 0, "beta"), "tool", TRUE)],
     [p \in Paths |-> ManifestOf("a", Version(1, 0, 0, ""), "tool", TRUE)]}

InitWriteBack ==
    /\ repo \in WriteRepos
    /\ metadata = <<>>
    /\ category_index = [c \in Categories |-> {}]
    /\ global_index = <<>>
    /\ sync_state = [sync_status |-> Unset, last_sync_time |-> NoTime, synced_count |-> NoTime]
    /\ changed = <<>>
    /\ clock = 0
    /\ faults = 0
    /\ last = NoCall
    /\ written = <<>>
    /\ procs = NoProcs

NextWriteBack ==
    \/ \E d \in CreateDicts, g \in GithubOutcomes, o \in Outcomes : create_asset(d, g, o)
    \/ \E d \in UpdateDicts, g \in GithubOutcomes, o \in Outcomes : update_asset("a", d, g, o)
    \/ \E g \in GithubOutcomes, o \in Outcomes : delete_asset("a", g, o)
    \/ SyncCompleted

SpecWriteBack == InitWriteBack /\ [][NextWriteBack]_vars

\* ========================================================================
\* Two full syncs side by side
\* ========================================================================
\* sync_from_github holds no lock: a second call may start while the loops
\* of the first are running.  Each call is cut at its accesses to the
\* repository and to the store; a MULTI/EXEC pipeline is one step.  The
\* local variables of a call are kept in procs.  Every store and repository
\* command succeeds in these runs.
ConcurrentManifests(p) ==
    IF p = "tools/a/manifest.yaml"
    THEN {ManifestOf("a", Version(1, 0, 0, ""), c, TRUE) : c \in Categories}
    ELSE {ManifestOf("b", Version(1, 0, 0, ""), "prompt", TRUE)}

\* Repositories in which no two manifests declare the same id.
ConcurrentRepos == {r \in Repos : \A p \in DOMAIN r : r[p] \in ConcurrentManifests(p)}

\* The store and the sync state that a full sync of repository r, run alone
\* on an empty store at time 0, leaves behind.
SyncedFrom(r) ==
    LET assets == fetch_and_parse_all(r, {})
    IN  SyncFinally(SyncExcept(
            SyncTry(TRUE, assets,
                    Store(<<>>, [c \in Categories |-> {}], <<>>, <<>>),
                    [sync_status |-> "syncing", last_sync_time |-> NoTime,
                     synced_count |-> NoTime],
                    0, [i \in 1..Len(assets) |-> "ok"], <<>>)))

InitConcurrent ==
    /\ repo \in ConcurrentRepos
    /\ \E r \in ConcurrentRepos :
          /\ metadata = SyncedFrom(r).store.metadata
          /\ category_index = SyncedFrom(r).store.category_index
          /\ global_index = SyncedFrom(r).store.global_index
          /\ changed = SyncedFrom(r).store.changed
          /\ sync_state = SyncedFrom(r).sync_state
    /\ clock = 0
    /\ faults = 0
    /\ last = NoCall
    /\ written = <<>>
    /\ procs = NoProcs

\* Lines 111-116: set "syncing", then scan and parse the repository.
SyncFetch(p) ==
    /\ procs[p].pc = "idle"
    /\ sync_state' = [sync_state EXCEPT !.sync_status = "syncing"]
    /\ procs' = [procs EXCEPT ![p] = [pc            |-> "fetched",
                                      github_assets |-> fetch_and_parse_all(repo, {})]]
    /\ last' = [NoCall EXCEPT !.op = "fetch"]
    /\ UNCHANGED <<repo, metadata, category_index, global_index, changed, clock, faults,
                   written>>

\* Lines 123-125: the snapshot of the stored records; deleted_ids (line
\* 163) is a function of the snapshot and of github_assets.
SyncSnapshot(p) ==
    /\ procs[p].pc = "fetched"
    /\ procs' = [procs EXCEPT ![p] =
                    [pc            |-> IF procs[p].github_assets = <<>> THEN "delete" ELSE "loop",
                     github_assets |-> procs[p].github_assets,
                     existing      |-> metadata,
                     i             |-> 1,
                     deleted_ids   |-> (DOMAIN metadata) \ AssetIds(procs[p].github_assets)]]
    /\ last' = [NoCall EXCEPT !.op = "snapshot"]
    /\ UNCHANGED <<repo, metadata, category_index, global_index, sync_state, changed, clock,
                   faults, written>>

\* Lines 130-160: one iteration of the loop over github_assets.
SyncSave(p) ==
    /\ procs[p].pc = "loop"
    /\ LET asset == procs[p].github_assets[procs[p].i]
           acc   == ProcessAsset(asset, "ok", procs[p].existing, DOMAIN procs[p].existing,
                                 [store |-> CurrentStore, stats |-> SyncStats,
                                  raised |-> FALSE])
       IN  /\ metadata' = acc.store.metadata
           /\ category_index' = acc.store.category_index
           /\ global_index' = acc.store.global_index
           /\ changed' = acc.store.changed
           /\ last' = IF _should_update_asset(asset, procs[p].existing)
                      THEN [op |-> "save_batch", id |-> asset.id]
                      ELSE [NoCall EXCEPT !.op = "unchanged"]
    /\ procs' = [procs EXCEPT ![p].i = @ + 1,
                              ![p].pc = IF procs[p].i = Len(procs[p].github_assets)
                                        THEN "delete" ELSE "loop"]
    /\ UNCHANGED <<repo, sync_state, clock, faults, written>>

\* Lines 322-326 of delete_asset_atomic: read the record to learn its
\* category; when there is none, return False.
SyncDeleteRead(p, id) ==
    /\ procs[p].pc = "delete"
    /\ id \in procs[p].deleted_ids
    /\ procs' = IF id \in DOMAIN metadata
                THEN [procs EXCEPT ![p] =
                        [pc            |-> "deleting",
                         github_assets |-> procs[p].github_assets,
                         existing      |-> procs[p].existing,
                         i             |-> procs[p].i,
                         deleted_ids   |-> procs[p].deleted_ids \ {id},
                         asset         |-> metadata[id]]]
                ELSE [procs EXCEPT ![p].deleted_ids = @ \ {id}]
    /\ last' = [NoCall EXCEPT !.op = "delete_read"]
    /\ UNCHANGED <<repo, metadata, category_index, global_index, sync_state, changed, clock,
                   faults, written>>

\* Lines 328-339 of delete_asset_atomic: the pipeline, built from the record
\* that was read.
SyncDeleteExec(p) ==
    /\ procs[p].pc = "deleting"
    /\ category_index' = remove_from_category(category_index, procs[p].asset.id,
                                              procs[p].asset.category)
    /\ metadata' = Del(metadata, procs[p].asset.id)
    /\ global_index' = Del(global_index, procs[p].asset.id)
    /\ procs' = [procs EXCEPT ![p] =
                    [pc            |-> "delete",
                     github_assets |-> procs[p].github_assets,
                     existing      |-> procs[p].existing,
                     i             |-> procs[p].i,
                     deleted_ids   |-> procs[p].deleted_ids]]
    /\ last' = [op |-> "delete_batch", id |-> procs[p].asset.id,
                category |-> procs[p].asset.category]
    /\ UNCHANGED <<repo, sync_state, changed, clock, faults, written>>

\* Lines 173-190: write the sync state, trim the queue, and set "idle" in
\* the finally clause (no save has failed).
SyncFinish(p) ==
    /\ procs[p].pc = "delete"
    /\ procs[p].deleted_ids = {}
    /\ sync_state' = [sync_status    |-> "idle",
                      last_sync_time |-> clock,
                      synced_count   |-> Cardinality(AssetIds(procs[p].github_assets))]
    /\ changed' = trim_changed_assets(changed, Keep)
    /\ procs' = [procs EXCEPT ![p] = [pc |-> "done"]]
    /\ last' = [NoCall EXCEPT !.op = "finish"]
    /\ UNCHANGED <<repo, metadata, category_index, global_index, clock, faults, written>>

BothDone == \A p \in Procs : procs[p].pc = "done"

\* A further full sync that overlaps with no other: it starts after both
\* have returned and runs to its end in one step.
FurtherSync ==
    /\ BothDone
    /\ SyncScanned

NextConcurrent ==
    \/ \E p \in Paths : \E m \in ConcurrentManifests(p) : RepoWrite(p, m)
    \/ \E ps \in SUBSET Paths : RepoRemove(ps)
    \/ \E p \in Procs : SyncFetch(p)
    \/ \E p \in Procs : SyncSnapshot(p)
    \/ \E p \in Procs : SyncSave(p)
    \/ \E p \in Procs : \E id \in Ids : SyncDeleteRead(p, id)
    \/ \E p \in Procs : SyncDeleteExec(p)
    \/ \E p \in Procs : SyncFinish(p)
    \/ FurtherSync

SpecConcurrent == InitConcurrent /\ [][NextConcurrent]_vars

\* ========================================================================
\* Continuous mode: cmd_continuous
\* ========================================================================
\* One worker runs sync_from_github, sleeps for the interval, and repeats,
\* inside try ... except KeyboardInterrupt.  No signal handler is installed:
\* the interrupt is raised in the worker wherever it is.  The pass is cut at
\* the same points as above; its local variables are procs[Worker].
Worker == "s1"

InPass(pc) == pc \in {"fetched", "loop", "delete", "deleting"}

\* The saves of the running pass that have been submitted, and those still
\* to come.
SavesDone(l) ==
    IF l.pc = "fetched" THEN {}
    ELSE {j \in 1..Len(l.github_assets) :
            j < l.i /\ _should_update_asset(l.github_assets[j], l.existing)}

SavesAhead(l) ==
    IF l.pc = "fetched" THEN {}
    ELSE {j \in 1..Len(l.github_assets) :
            j >= l.i /\ _should_update_asset(l.github_assets[j], l.existing)}

\* The deletes of the running pass that have been submitted, and those
\* still to come.
DeletesAhead(l) ==
    IF l.pc = "fetched" THEN {}
    ELSE l.deleted_ids \cup (IF l.pc = "deleting" THEN {l.asset.id} ELSE {})

DeletesDone(l) ==
    IF l.pc = "fetched" THEN {}
    ELSE ((DOMAIN l.existing) \ AssetIds(l.github_assets)) \ DeletesAhead(l)

\* time.sleep(interval) returns and the loop starts the next pass.
Sleep ==
    /\ procs[Worker].pc = "done"
    /\ procs' = [procs EXCEPT ![Worker] = [pc |-> "idle"]]
    /\ last' = [NoCall EXCEPT !.op = "sleep"]
    /\ UNCHANGED <<repo, metadata, category_index, global_index, sync_state, changed, clock,
                   faults, written>>

\* KeyboardInterrupt raised in the worker.  Inside sync_from_github it is
\* not an Exception, so the except clause is skipped and the finally clause
\* runs: no save has failed, and the status is set to "idle".  The handler
\* in cmd_continuous then returns.
KeyboardInterrupt ==
    /\ procs[Worker].pc # "stopped"
    /\ sync_state' = IF InPass(procs[Worker].pc)
                     THEN [sync_state EXCEPT !.sync_status = "idle"]
                     ELSE sync_state
    /\ procs' = [procs EXCEPT ![Worker] = [pc |-> "stopped"]]
    /\ last' = [op      |-> "interrupt",
                in_pass |-> InPass(procs[Worker].pc),
                applied |-> /\ InPass(procs[Worker].pc)
                            /\ (SavesDone(procs[Worker]) # {}
                                  \/ DeletesDone(procs[Worker]) # {}),
                pending |-> /\ InPass(procs[Worker].pc)
                            /\ (SavesAhead(procs[Worker]) # {}
                                  \/ DeletesAhead(procs[Worker]) # {})]
    /\ UNCHANGED <<repo, metadata, category_index, global_index, changed, clock, faults,
                   written>>

NextContinuous ==
    \/ \E p \in Paths : \E m \in ConcurrentManifests(p) : RepoWrite(p, m)
    \/ \E ps \in SUBSET Paths : RepoRemove(ps)
    \/ SyncFetch(Worker)
    \/ SyncSnapshot(Worker)
    \/ SyncSave(Worker)
    \/ \E id \in Ids : SyncDeleteRead(Worker, id)
    \/ SyncDeleteExec(Worker)
    \/ SyncFinish(Worker)
    \/ Sleep
    \/ KeyboardInterrupt

SpecContinuous == InitConcurrent /\ [][NextContinuous]_vars

\* ========================================================================
\* The store batches on their own: save_asset_atomic, delete_asset_atomic
\* ========================================================================
\* Records as a caller may hand them to save_asset_atomic, with the optional
\* field author set or None.
StoredAssetOf(id, category, author) ==
    [id          |-> id,
     version     |-> Version(1, 0, 0, ""),
     category    |-> category,
     github_path |-> ManifestPath(category, id),
     github_sha  |-> <<id, category, author>>,
     author      |-> author]

StoredAssets ==
    {StoredAssetOf("a", c, author) : c \in Categories, author \in {NoValue, "x"}}
        \cup {StoredAssetOf("b", "prompt", NoValue)}

InitStore == Init /\ repo = <<>>

\* A call of save_asset_atomic(asset, old_category).  out = "false": the
\* pipeline meets a redis.RedisError, nothing is applied, False is returned.
SaveAssetAtomic(asset, old_category, out) ==
    /\ \E st \in {IF out = "ok" THEN save_asset_atomic(CurrentStore, asset, old_category)
                  ELSE CurrentStore} :
          /\ metadata' = st.metadata
          /\ category_index' = st.category_index
          /\ global_index' = st.global_index
          /\ changed' = st.changed
    /\ last' = [op |-> "save", asset |-> asset, old_category |-> old_category,
                returned |-> out = "ok", raised |-> FALSE]
    /\ UNCHANGED <<repo, sync_state, clock, faults, written, procs>>

\* A call of delete_asset_atomic(asset_id).
DeleteAssetAtomic(asset_id, out) ==
    /\ \E st \in {IF out = "ok" THEN delete_asset_atomic(CurrentStore, asset_id)
                  ELSE CurrentStore} :
          /\ metadata' = st.metadata
          /\ category_index' = st.category_index
          /\ global_index' = st.global_index
          /\ changed' = st.changed
    /\ last' = [op |-> "delete", id |-> asset_id,
                found |-> delete_asset_atomic_found(CurrentStore, asset_id),
                returned |-> out = "ok" /\ delete_asset_atomic_found(CurrentStore, asset_id),
                raised |-> FALSE]
    /\ UNCHANGED <<repo, sync_state, clock, faults, written, procs>>

NextStore ==
    \/ \E asset \in StoredAssets, old_category \in Categories \cup {Unset},
          out \in {"ok", "false"} : SaveAssetAtomic(asset, old_category, out)
    \/ \E asset_id \in Ids, out \in {"ok", "false"} : DeleteAssetAtomic(asset_id, out)

SpecStore == InitStore /\ [][NextStore]_vars

\* ========================================================================
\* A full sync on a store whose indexes are not exact
\* ========================================================================
\* Stores in which the keys of asset "a" disagree: a record or none, a
\* Global Summary entry or none (of any category), and a membership in any
\* set of Category Indexes.  Such stores are left by interleaved syncs, by
\* saves given a wrong previous category, and by other writers of the
\* database.
RepairRecords ==
    {to_stored_asset(Asset(GitHubFile(r, p))) :
        r \in {q \in ConcurrentRepos : "tools/a/manifest.yaml" \in DOMAIN q},
        p \in {"tools/a/manifest.yaml"}}

InitRepair ==
    /\ repo \in ConcurrentRepos
    /\ metadata \in {<<>>} \cup {[id \in {"a"} |-> rec] : rec \in RepairRecords}
    /\ category_index \in [Categories -> SUBSET {"a"}]
    /\ global_index \in {<<>>} \cup
           {[id \in {"a"} |-> make_index_entry(rec)] : rec \in RepairRecords}
    /\ sync_state = [sync_status |-> "idle", last_sync_time |-> 0, synced_count |-> 0]
    /\ changed = <<>>
    /\ clock = 0
    /\ faults = 0
    /\ last = NoCall
    /\ written = <<>>
    /\ procs = NoProcs

NextRepair ==
    \/ \E p \in Paths : \E m \in ConcurrentManifests(p) : RepoWrite(p, m)
    \/ \E ps \in SUBSET Paths : RepoRemove(ps)
    \/ SyncCompleted

SpecRepair == InitRepair /\ [][NextRepair]_vars

\* ========================================================================
\* Full syncs over the manifests that differ in revision, version or id
\* ========================================================================
\* Asset "a" with a changed category, with a changed version, and a second
\* asset "b": the manifests that tell apart the cases of the write decision
\* and of the counting.  All of them pass validation.
CountedManifests ==
    {ManifestOf("a", Version(1, 0, 0, ""), "tool", TRUE),
     ManifestOf("a", Version(1, 0, 0, ""), "prompt", TRUE),
     ManifestOf("a", Version(1, 0, 1, ""), "tool", TRUE),
     ManifestOf("b", Version(1, 0, 0, ""), "prompt", TRUE)}

InitCounts == Init /\ \A p \in DOMAIN repo : repo[p] \in CountedManifests

NextCounts ==
    \/ \E p \in Paths, m \in CountedManifests : RepoWrite(p, m)
    \/ \E ps \in SUBSET Paths : RepoRemove(ps)
    \/ SyncAborted
    \/ SyncCompleted

SpecCounts == InitCounts /\ [][NextCounts]_vars

\* ========================================================================
\* create_asset over a store that lags behind the repository: the store
\* holds what a full sync left, other writers remove manifest files, and
\* create_asset and full syncs follow in any order.
\* ========================================================================
\* Initial repositories: those of the write-back runs, and two whose file
\* at the default path of asset "a" is not a manifest of "a": a document
\* that fails validation, and a manifest declaring another id.
CreateRepos ==
    WriteRepos \cup
    {[p \in {"tools/a/manifest.yaml"} |-> ManifestOf("a", Version(1, 0, 0, ""), "tool", FALSE)],
     [p \in {"tools/a/manifest.yaml"} |-> ManifestOf("b", Version(1, 0, 0, ""), "prompt", TRUE)]}

InitCreate ==
    /\ repo \in CreateRepos
    /\ \E res \in {SyncedFrom(repo)} :
          /\ metadata = res.store.metadata
          /\ category_index = res.store.category_index
          /\ global_index = res.store.global_index
          /\ changed = res.store.changed
          /\ sync_state = res.sync_state
    /\ clock = 0
    /\ faults = 0
    /\ last = NoCall
    /\ written = <<>>
    /\ procs = NoProcs

NextCreate ==
    \/ \E ps \in SUBSET Paths : RepoRemove(ps)
    \/ \E d \in CreateDicts, g \in GithubOutcomes, o \in Outcomes : create_asset(d, g, o)
    \/ SyncCompleted

SpecCreate == InitCreate /\ [][NextCreate]_vars

\* ========================================================================
\* A poller next to a full sync pass: one worker runs full sync passes cut
\* at their repository and store accesses, other writers commit at any
\* point, and incremental_sync is called while no pass is running.  The
\* store starts as a full sync of the repository left it.
\* ========================================================================
InitPolling ==
    /\ repo \in ConcurrentRepos
    /\ \E res \in {SyncedFrom(repo)} :
          /\ metadata = res.store.metadata
          /\ category_index = res.store.category_index
          /\ global_index = res.store.global_index
          /\ changed = res.store.changed
          /\ sync_state = res.sync_state
    /\ clock = 0
    /\ faults = 0
    /\ last = NoCall
    /\ written = <<>>
    /\ procs = NoProcs

PassRunning == InPass(procs[Worker].pc)

NextPolling ==
    \/ \E p \in Paths : \E m \in ConcurrentManifests(p) : RepoWrite(p, m)
    \/ \E ps \in SUBSET Paths : RepoRemove(ps)
    \/ SyncFetch(Worker)
    \/ SyncSnapshot(Worker)
    \/ SyncSave(Worker)
    \/ \E id \in Ids : SyncDeleteRead(Worker, id)
    \/ SyncDeleteExec(Worker)
    \/ SyncFinish(Worker)
    \/ Sleep
    \/ ~PassRunning /\ IncrementalSync

SpecPolling == InitPolling /\ [][NextPolling]_vars

\* ========================================================================
\* The fields of a Stored Asset Record over its life: one asset whose
\* manifest carries the optional field author or not, committed, changed
\* and removed by other writers, and full syncs that stamp each record they
\* convert with the time of the conversion.
\* ========================================================================
RecordPath == "tools/a/manifest.yaml"

RecordManifests ==
    {[id |-> "a", version |-> v, category |-> c, valid |-> TRUE, author |-> au] :
        v \in Versions, c \in {"tool", "prompt"}, au \in {NoValue, "x"}}

\* The assets as the loop converts them at time now.
ConvertedAt(assets, now) ==
    [i \in 1..Len(assets) |->
        [f \in (DOMAIN assets[i]) \cup {"now"} |->
            IF f = "now" THEN now ELSE assets[i][f]]]

InitRecord ==
    /\ repo \in {<<>>} \cup {[p \in {RecordPath} |-> m] : m \in RecordManifests}
    /\ metadata = <<>>
    /\ category_index = [c \in Categories |-> {}]
    /\ global_index = <<>>
    /\ sync_state = [sync_status |-> Unset, last_sync_time |-> NoTime, synced_count |-> NoTime]
    /\ changed = <<>>
    /\ clock = 0
    /\ faults = 0
    /\ last = NoCall
    /\ written = <<>>
    /\ procs = NoProcs

\* A full sync whose scan succeeds, under every combination of faults.
RecordSync ==
    /\ Len(changed) <= MaxQueue
    /\ \E unfetched \in SUBSET (DOMAIN repo) :
       \E assets \in {ConvertedAt(fetch_and_parse_all(repo, unfetched), clock)} :
       \E save_out \in [1..Len(assets) -> Outcomes] :
       \E del_out \in [(DOMAIN metadata) \ AssetIds(assets) -> Outcomes] :
          /\ faults + Faults(unfetched, save_out, del_out) <= MaxFaults
          /\ \A i \in 1..Len(assets) :
                i \notin NeedsWrite(assets, metadata) => save_out[i] = "ok"
          /\ sync_from_github("caller", TRUE, unfetched, assets, save_out, del_out)

NextRecord ==
    \/ \E m \in RecordManifests : RepoWrite(RecordPath, m)
    \/ RepoRemove({RecordPath})
    \/ RecordSync

SpecRecord == InitRecord /\ [][NextRecord]_vars

\* ========================================================================
\* update_asset with the manifest dictionaries a caller can pass: valid
\* ones, whose "id" field is the asset's id or another id.  The store
\* starts as a full sync of the repository left it.
\* ========================================================================
RenamingDicts ==
    {d \in UpdateDicts : d.valid}
        \cup {ManifestOf("b", Version(1, 0, 0, ""), "tool", TRUE)}

NextUpdate ==
    \/ \E d \in RenamingDicts, g \in GithubOutcomes, o \in Outcomes : update_asset("a", d, g, o)
    \/ SyncCompleted

SpecUpdate == InitCreate /\ [][NextUpdate]_vars

\* ========================================================================
\* Properties
\* ========================================================================
\* The last call was a full sync that returned to its caller.
SyncReturned == last.op = "sync" /\ ~last.raised

\* ... and reported no failure.
ZeroFailures == SyncReturned /\ last.stats.failed = 0

\* github_assets of the last full sync (the repository is as it was scanned).
LastAssets == fetch_and_parse_all(repo, last.unfetched)

\* The Category Indexes that hold an id.
IndexesOf(id) == {c \in Categories : id \in category_index[c]}

\* C1: after a full sync that returns with zero failures, every Stored Asset
\* Record with category C has its id in the Category Index of C and in no
\* other Category Index.
C1_CategoryIndexExact ==
    ZeroFailures =>
        \A id \in DOMAIN metadata : IndexesOf(id) = {metadata[id].category}

\* C2: after a full sync that returns with zero failures, the ids keyed in
\* the Global Summary Index are exactly the ids that have a Stored Asset
\* Record.
C2_SummaryMatchesRecords ==
    ZeroFailures => DOMAIN global_index = DOMAIN metadata

\* A zero-failure sync that both wrote and deleted records, leaving some.
C2_Witness ==
    /\ ZeroFailures
    /\ last.stats.created > 0
    /\ DOMAIN last.existing \ DOMAIN metadata # {}
    /\ DOMAIN metadata # {}
    /\ DOMAIN global_index = DOMAIN metadata

\* C3: a full sync repeated with no repository change in between (both runs
\* free of faults) reports created = 0, updated = 0 and deleted = 0.
C3_SecondRunIsNoOp ==
    (SyncReturned /\ last.repeat /\ last.faultfree) =>
        /\ last.stats.created = 0
        /\ last.stats.updated = 0
        /\ last.stats.deleted = 0

\* C4: a full sync that aborts with an exception leaves sync_status equal
\* to "failed" when it exits.
C4_AbortLeavesFailed ==
    (last.op = "sync" /\ last.raised) => sync_state.sync_status = "failed"

\* C5: when a full sync returns normally, sync_status is "idle" if no
\* per-asset failure occurred and "failed" otherwise, never "syncing".
C5_StatusAfterReturn ==
    SyncReturned =>
        sync_state.sync_status = IF last.stats.failed = 0 THEN "idle" ELSE "failed"

\* The ids the last full sync had to delete: existing_ids - github_ids.
LastDeletedIds == (DOMAIN last.existing) \ AssetIds(LastAssets)

\* C6: every id that had a Stored Asset Record before a full sync and is not
\* in the incoming id set has, after the sync (no store or fetch fault
\* occurring), no Stored Asset Record, no Global Summary Index entry and no
\* Category Index membership.
C6_DeletionComplete ==
    (SyncReturned /\ last.faultfree) =>
        \A id \in LastDeletedIds :
            /\ id \notin DOMAIN metadata
            /\ id \notin DOMAIN global_index
            /\ IndexesOf(id) = {}

\* The positions of github_assets whose save failed in the last full sync.
FailedSaves == {i \in DOMAIN last.save_out : last.save_out[i] # "ok"}

\* The positions whose save was attempted and succeeded.
GoodSaves == NeedsWrite(LastAssets, last.existing) \ FailedSaves

\* The message the loop records for a failed save.
SaveError(i) ==
    IF last.save_out[i] = "false"
    THEN <<"Failed to save asset", LastAssets[i].id>>
    ELSE <<"Error processing", LastAssets[i].id>>

\* The last position at which id was saved successfully.
LastGoodSave(id) ==
    CHOOSE i \in GoodSaves :
        /\ LastAssets[i].id = id
        /\ \A j \in GoodSaves : LastAssets[j].id = id => j <= i

\* C7: a per-asset failure during a full sync (a save that reports failure
\* or raises) is counted in failed and recorded as an error message, and does
\* not stop the run: the call returns normally with failed > 0, every other
\* incoming asset that needs a write is written, the deletion set is applied
\* and the sync state is written.
C7_FailureDoesNotStopRun ==
    (last.op = "sync" /\ FailedSaves # {}) =>
        /\ ~last.raised
        /\ last.stats.failed = Cardinality(FailedSaves)
        /\ last.stats.failed > 0
        /\ \A i \in FailedSaves :
              \E k \in DOMAIN last.stats.errors : last.stats.errors[k] = SaveError(i)
        /\ last.stats.total_processed = Len(LastAssets)
        /\ last.stats.created + last.stats.updated = Cardinality(GoodSaves)
        /\ \A i \in GoodSaves :
              /\ LastAssets[i].id \in DOMAIN metadata
              /\ metadata[LastAssets[i].id] =
                    to_stored_asset(LastAssets[LastGoodSave(LastAssets[i].id)])
        /\ last.stats.deleted = Cardinality(LastDeletedIds)
        /\ \A id \in LastDeletedIds :
              last.del_out[id] = "ok" => id \notin DOMAIN metadata
        /\ sync_state.synced_count = Cardinality(AssetIds(LastAssets))

\* The first save of a run failed and a later asset was still written.
C7_Witness ==
    /\ last.op = "sync"
    /\ 1 \in FailedSaves
    /\ 2 \in GoodSaves
    /\ LastAssets[2].id # LastAssets[1].id
    /\ LastAssets[2].id \in DOMAIN metadata
    /\ last.stats.failed = 1
    /\ ~last.raised

\* The ids declared by a fetched manifest that fails validation and by no
\* manifest that passes it.
InvalidFiles(r, unfetched) ==
    {p \in (DOMAIN r) \ unfetched : ~r[p].valid}

InvalidOnlyIds(r, unfetched) ==
    {r[p].id : p \in InvalidFiles(r, unfetched)} \ AssetIds(fetch_and_parse_all(r, unfetched))

\* All that the store holds for one id.
AssetKeys(id) ==
    <<IF id \in DOMAIN metadata THEN {metadata[id]} ELSE {},
      IF id \in DOMAIN global_index THEN {global_index[id]} ELSE {},
      IndexesOf(id)>>

\* C8: in a full sync that returns (no fault occurring), a manifest that
\* fails validation is excluded from the incoming set and the sync mutates
\* nothing that the store holds for that manifest's id, whatever it held
\* before.
C8_InvalidManifestNoMutation ==
    [][(last'.op = "sync" /\ ~last'.raised /\ last'.faultfree /\ last' # last) =>
          \A id \in InvalidOnlyIds(repo, last'.unfetched) :
              /\ id \notin AssetIds(fetch_and_parse_all(repo, last'.unfetched))
              /\ AssetKeys(id)' = AssetKeys(id)]_vars

\* The positions of github_assets that declare id.
ManifestsOf(id) == {i \in 1..Len(LastAssets) : LastAssets[i].id = id}

\* C9: given a stored asset of category c1, if the incoming manifest for the
\* same id has another category c2 (hence a changed revision), then after a
\* full sync in which no save of that id failed the id is absent from the
\* Category Index of c1 and present in the one of c2.
C9_CategoryMigration ==
    SyncReturned =>
        \A id \in DOMAIN last.existing :
            (/\ ManifestsOf(id) # {}
             /\ ManifestsOf(id) \cap FailedSaves = {}
             /\ \A i \in ManifestsOf(id) :
                   /\ LastAssets[i].category # last.existing[id].category
                   /\ _should_update_asset(LastAssets[i], last.existing))
            => /\ id \notin category_index[last.existing[id].category]
               /\ \A i \in ManifestsOf(id) : id \in category_index[LastAssets[i].category]

\* A stored "tool" asset whose manifest became "skill" has been synced.
C9_Witness ==
    /\ SyncReturned
    /\ \E id \in DOMAIN last.existing :
          /\ last.existing[id].category = "tool"
          /\ id \in DOMAIN metadata
          /\ metadata[id].category = "skill"
          /\ ManifestsOf(id) # {}
          /\ \A i \in ManifestsOf(id) : LastAssets[i].category = "skill"
          /\ id \in category_index["skill"]
          /\ id \notin category_index["tool"]

\* C10: when two valid manifests at different paths share an id, after every
\* full sync (no fault occurring) the Stored Asset Record of that id is the
\* projection of the manifest that comes last in file-scan order.
C10_LastWriteWins ==
    (SyncReturned /\ last.faultfree) =>
        \A id \in AssetIds(LastAssets) :
            Cardinality(ManifestsOf(id)) >= 2 =>
                /\ id \in DOMAIN metadata
                /\ metadata[id] =
                     to_stored_asset(LastAssets[CHOOSE i \in ManifestsOf(id) :
                                                   \A j \in ManifestsOf(id) : j <= i])

\* C11: with an empty repository and a non-empty store, a full sync (no
\* fault occurring) deletes every Stored Asset Record, leaves every Category
\* Index and the Global Summary Index empty and sets synced_count to 0.
C11_EmptyRepositoryClearsStore ==
    (SyncReturned /\ last.faultfree /\ DOMAIN repo = {} /\ DOMAIN last.existing # {}) =>
        /\ DOMAIN metadata = {}
        /\ DOMAIN global_index = {}
        /\ \A c \in Categories : category_index[c] = {}
        /\ sync_state.synced_count = 0

\* ------------------------------------------------------------------------
\* Write-back path
\* ------------------------------------------------------------------------
\* v precedes or equals w in semantic-version order; a pre-release precedes
\* the release of the same MAJOR.MINOR.PATCH.
VersionLeq(v, w) ==
    \/ v.major < w.major
    \/ v.major = w.major /\ v.minor < w.minor
    \/ v.major = w.major /\ v.minor = w.minor /\ v.patch < w.patch
    \/ v.major = w.major /\ v.minor = w.minor /\ v.patch = w.patch
          /\ (v.pre = w.pre \/ w.pre = "")

\* C12: for every existing asset, whatever its valid version (pre-release
\* suffix included) and whatever version the caller supplies, an
\* update_asset whose repository and store writes succeed returns success,
\* writes the manifest with the patch component incremented by one and
\* stores that version.
C12_UpdateIncrementsPatch ==
    [][(/\ last'.op = "update"
        /\ asset_exists_in_github(repo, last'.id)
        /\ last'.valid
        /\ last'.github_out = "ok"
        /\ last'.store_out = "ok")
       => LET existing == get_asset_by_id(repo, last'.id)
              bumped   == [existing.version EXCEPT !.patch = @ + 1]
          IN  /\ ~last'.raised
              /\ last'.ok
              /\ repo'[existing.github_path].version = bumped
              /\ last'.id \in DOMAIN metadata'
              /\ metadata'[last'.id].version = bumped]_vars

\* C13: across create_asset, update_asset and delete_asset calls, the
\* version written to the repository for an id never decreases relative to
\* the version last written for that id by the write-back path.
C13_WrittenVersionMonotonic ==
    [][\A id \in (DOMAIN written) \cap (DOMAIN written') :
          VersionLeq(written[id], written'[id])]_vars

\* C15: create_asset returns failure when the id is missing or already
\* resolvable in the repository, and then writes nothing to the repository
\* and mutates nothing in the store.
C15_CreateRejects ==
    [][(/\ last'.op = "create"
        /\ (last'.id = NoId \/ asset_exists_in_github(repo, last'.id)))
       => /\ ~last'.ok
          /\ ~last'.raised
          /\ ~last'.github_called
          /\ UNCHANGED <<repo, metadata, category_index, global_index, changed,
                         sync_state>>]_vars

\* A create_asset for an id that the repository already resolves was
\* rejected while the store held a record.
C15_Witness ==
    /\ last.op = "create"
    /\ last.resolvable
    /\ ~last.ok
    /\ last.id \in DOMAIN metadata
    /\ asset_exists_in_github(repo, last.id)

\* C16: a create_asset or delete_asset whose repository write succeeded and
\* whose store update failed still reports success and keeps the repository
\* write; the next full sync (no fault occurring) leaves the record and the
\* index entries of the id present after a create, absent after a delete.
C16_StoreFailureReconciled ==
    /\ (/\ last.op \in {"create", "delete"}
        /\ last.github_called /\ last.github_out = "ok"
        /\ last.store_called /\ last.store_out # "ok")
       => /\ last.ok
          /\ last.op = "create" => asset_exists_in_github(repo, last.id)
          /\ last.op = "delete" => last.path \notin DOMAIN repo
    /\ (/\ SyncReturned /\ last.faultfree
        /\ last.prev.op \in {"create", "delete"}
        /\ last.prev.ok /\ last.prev.store_failed)
       => IF last.prev.op = "create"
          THEN /\ last.prev.id \in DOMAIN metadata
               /\ metadata[last.prev.id] =
                     to_stored_asset(get_asset_by_id(repo, last.prev.id))
               /\ last.prev.id \in DOMAIN global_index
               /\ IndexesOf(last.prev.id) = {metadata[last.prev.id].category}
          ELSE /\ last.prev.id \notin DOMAIN metadata
               /\ last.prev.id \notin DOMAIN global_index
               /\ IndexesOf(last.prev.id) = {}

\* C17: after a successful update_asset that changes the asset's category
\* and whose store update succeeds, the id is a member of the new category's
\* index and of no other, and the manifest was written to the path the asset
\* had before.
C17_UpdateMigratesCategory ==
    [][(/\ last'.op = "update"
        /\ last'.ok
        /\ last'.valid
        /\ last'.store_called /\ last'.store_out = "ok"
        /\ get_asset_by_id(repo, last'.id).category # last'.category)
       => /\ {c \in Categories : last'.id \in category_index'[c]} = {last'.category}
          /\ last'.path = get_asset_by_id(repo, last'.id).github_path
          /\ repo'[last'.path].category = last'.category]_vars

FullSyncOf(call) ==
    SyncFinally(SyncExcept(
        SyncTry(~call.raised,
                IF call.raised THEN <<>> ELSE fetch_and_parse_all(repo, call.unfetched),
                CurrentStore, [sync_state EXCEPT !.sync_status = "syncing"],
                clock, call.save_out, call.del_out)))

\* C14: incremental_sync runs a full sync when no last_sync_time is
\* recorded; with a last_sync_time recorded it returns zero-effect stats and
\* leaves the whole store unchanged when the commit request returns nothing,
\* and runs a full sync when it returns at least one commit.
C14_IncrementalSync ==
    [][(last'.caller = "incremental_sync")
       => LET since == get_last_sync_time(sync_state)
              full  == /\ last'.op = "sync"
                       /\ CurrentStore' = FullSyncOf(last').store
                       /\ sync_state' = FullSyncOf(last').sync_state
                       /\ last'.stats = FullSyncOf(last').stats
              skip  == /\ last'.op = "skip"
                       /\ last'.stats = SyncStats
                       /\ UNCHANGED <<metadata, category_index, global_index,
                                      sync_state, changed, repo>>
          IN  IF since = NoTime THEN full
              ELSE IF get_commits_since(clock, since, TRUE) = {} THEN skip
              ELSE IF last'.op = "skip" THEN skip /\ ~last'.faultfree
              ELSE full]_vars

\* incremental_sync returned without touching a non-empty store although
\* the repository holds commits, all of them older than the last sync.
C14_Witness ==
    /\ last.op = "skip"
    /\ last.caller = "incremental_sync"
    /\ last.faultfree
    /\ clock > 0
    /\ sync_state.last_sync_time = clock
    /\ sync_state.sync_status = "idle"
    /\ DOMAIN metadata # {}

\* ------------------------------------------------------------------------
\* Changed-Assets Queue
\* ------------------------------------------------------------------------
\* The ids that a full sync appends, in loop order: one per successful save.
RECURSIVE AppendedFrom(_, _, _, _)
AppendedFrom(assets, existing, save_out, i) ==
    IF i > Len(assets) THEN <<>>
    ELSE IF _should_update_asset(assets[i], existing) /\ save_out[i] = "ok"
         THEN <<assets[i].id>> \o AppendedFrom(assets, existing, save_out, i + 1)
         ELSE AppendedFrom(assets, existing, save_out, i + 1)

SavedCoherent(id) ==
    /\ id \in DOMAIN metadata
    /\ id \in DOMAIN global_index
    /\ global_index[id] = make_index_entry(metadata[id])
    /\ id \in category_index[metadata[id].category]

DeletedCoherent(id, category) ==
    /\ id \notin DOMAIN metadata
    /\ id \notin DOMAIN global_index
    /\ id \notin category_index[category]

IndexInvariants ==
    /\ \A id \in DOMAIN metadata : IndexesOf(id) = {metadata[id].category}
    /\ DOMAIN global_index = DOMAIN metadata
    /\ \A id \in DOMAIN metadata : global_index[id] = make_index_entry(metadata[id])

\* C19: when two full syncs interleave their batches, each save or delete
\* batch leaves the record, the summary entry and the category membership
\* of its own asset coherent; and once both syncs have completed and one
\* further full sync, overlapping with no other and free of faults, has
\* completed on the repository as it then is, every record's id is in
\* exactly the Category Index of its category and the Global Summary Index
\* matches the records.
C19_ConcurrentSyncsTransient ==
    /\ last.op = "save_batch" => SavedCoherent(last.id)
    /\ last.op = "delete_batch" => DeletedCoherent(last.id, last.category)
    /\ (BothDone /\ last.op = "sync" /\ ~last.raised /\ last.faultfree) => IndexInvariants

\* ------------------------------------------------------------------------
\* Full sync: what the returned SyncStats report
\* ------------------------------------------------------------------------
\* The entries of the errors list that are neither about a save nor about a
\* delete.
SkipErrors ==
    {k \in DOMAIN last.stats.errors :
        last.stats.errors[k][1] \notin
            {"Failed to save asset", "Error processing", "Failed to delete"}}

\* C21: every manifest file that a full sync fetches and then skips because
\* it fails YAML parsing or schema validation produces an entry in the errors
\* list of the SyncStats the run returns (so the list holds at least as many
\* entries of that kind as files were skipped).
C21_SkippedManifestRecorded ==
    SyncReturned =>
        Cardinality(InvalidFiles(repo, last.unfetched)) <= Cardinality(SkipErrors)

\* The ids whose deletion failed in the last full sync.
FailedDeletes == {id \in LastDeletedIds : last.del_out[id] # "ok"}

\* C22: a deletion that fails during a full sync (the store reports failure
\* or the call raises) is recorded in the run's errors, the remaining
\* deletions are still carried out, and the deleted total of the returned
\* stats counts only the deletions that succeeded.
C22_FailedDeletionRecorded ==
    SyncReturned =>
        /\ \A id \in FailedDeletes :
              \E k \in DOMAIN last.stats.errors :
                  last.stats.errors[k] = <<"Failed to delete", id>>
        /\ \A id \in LastDeletedIds \ FailedDeletes : id \notin DOMAIN metadata
        /\ last.stats.deleted = Cardinality(LastDeletedIds \ FailedDeletes)

\* ------------------------------------------------------------------------
\* Full sync: which assets are written, and how they are counted
\* ------------------------------------------------------------------------
\* The rule for "needs a write", against the records as they are when the
\* sync takes its snapshot.
NeedsWriteRule(asset, records) ==
    \/ asset.id \notin DOMAIN records
    \/ records[asset.id].github_sha # asset.github_sha
    \/ records[asset.id].version # asset.version

\* The ids of the assets at the positions in S, in processing order.
RECURSIVE IdsAt(_, _, _)
IdsAt(assets, S, i) ==
    IF i > Len(assets) THEN <<>>
    ELSE IF i \in S THEN <<assets[i].id>> \o IdsAt(assets, S, i + 1)
         ELSE IdsAt(assets, S, i + 1)

\* C26: in a full sync that returns, a write is attempted for an incoming
\* asset if and only if no record existed for its id at the snapshot, or the
\* stored github_sha differs from the repository revision, or the stored
\* version differs from the manifest version; an id none of whose incoming
\* assets meets the rule keeps its record, summary entry and memberships
\* unchanged and is not appended to the queue.
C26_WriteRule ==
    [][(last'.op = "sync" /\ ~last'.raised) =>
        \A assets \in {fetch_and_parse_all(repo, last'.unfetched)} :
        \A needing \in {{i \in 1..Len(assets) : NeedsWriteRule(assets[i], metadata)}} :
        \A good \in {{i \in needing : last'.save_out[i] = "ok"}} :
            /\ last'.stats.created + last'.stats.updated = Cardinality(good)
            /\ last'.stats.failed = Cardinality(needing \ good)
            /\ \A i \in good : assets[i].id \in DOMAIN metadata'
            /\ changed' = changed \o IdsAt(assets, good, 1)
            /\ \A i \in (1..Len(assets)) \ needing :
                  (\A j \in needing : assets[j].id # assets[i].id) =>
                     /\ metadata'[assets[i].id] = metadata[assets[i].id]
                     /\ assets[i].id \in DOMAIN global_index' <=>
                            assets[i].id \in DOMAIN global_index
                     /\ assets[i].id \in DOMAIN global_index =>
                            global_index'[assets[i].id] = global_index[assets[i].id]
                     /\ \A c \in Categories :
                           assets[i].id \in category_index'[c] <=>
                               assets[i].id \in category_index[c]
    ]_vars

\* A sync found one incoming asset unchanged and wrote another.
C26_Witness ==
    /\ SyncReturned
    /\ \E i, j \in 1..Len(LastAssets) :
          /\ ~NeedsWriteRule(LastAssets[i], last.existing)
          /\ NeedsWriteRule(LastAssets[j], last.existing)
          /\ LastAssets[j].id \in DOMAIN last.existing
          /\ metadata[LastAssets[j].id] = to_stored_asset(LastAssets[j])

C23_CancellationBetweenPasses ==
    last.op = "interrupt" =>
        /\ ~last.in_pass
        /\ ~(last.applied /\ last.pending /\ sync_state.sync_status = "idle")

\* ------------------------------------------------------------------------
\* The store batches
\* ------------------------------------------------------------------------
\* C24: a save_asset_atomic(record, previousCategory) that returns True
\* leaves the Stored Asset Record of record.id equal to record, record.id in
\* the Category Index of record.category and out of the index of
\* previousCategory when that is given and differs, and a Global Summary
\* entry whose id, category and version are the record's; the record, the
\* summary entry and the memberships of every other id, the Sync State and
\* the Changed-Assets Queue are unchanged.
C24_SaveAtomicEffect ==
    [][(last'.op = "save" /\ last'.returned) =>
        /\ last'.asset.id \in DOMAIN metadata'
        /\ from_dict(metadata'[last'.asset.id]) = last'.asset
        /\ last'.asset.id \in category_index'[last'.asset.category]
        /\ (last'.old_category # Unset /\ last'.old_category # last'.asset.category) =>
               last'.asset.id \notin category_index'[last'.old_category]
        /\ last'.asset.id \in DOMAIN global_index'
        /\ global_index'[last'.asset.id] =
               [id       |-> last'.asset.id,
                category |-> last'.asset.category,
                version  |-> last'.asset.version]
        /\ \A id \in Ids \ {last'.asset.id} :
              /\ id \in DOMAIN metadata' <=> id \in DOMAIN metadata
              /\ id \in DOMAIN metadata => metadata'[id] = metadata[id]
              /\ id \in DOMAIN global_index' <=> id \in DOMAIN global_index
              /\ id \in DOMAIN global_index => global_index'[id] = global_index[id]
              /\ \A c \in Categories : id \in category_index'[c] <=> id \in category_index[c]
        /\ sync_state' = sync_state
        /\ changed' = changed
    ]_vars

\* C25: delete_asset_atomic(id) on an id without a Stored Asset Record
\* returns False, raises nothing and leaves the store as it was; on an id
\* with a record it removes the id from the Category Index of the category
\* stored in the record, deletes the record and removes the Global Summary
\* entry.
C25_DeleteAtomicEffect ==
    [][last'.op = "delete" =>
        /\ ~last'.found =>
              /\ ~last'.returned
              /\ ~last'.raised
              /\ UNCHANGED <<metadata, category_index, global_index, changed, sync_state>>
        /\ last'.returned =>
              /\ last'.found
              /\ last'.id \notin category_index'[metadata[last'.id].category]
              /\ last'.id \notin DOMAIN metadata'
              /\ last'.id \notin DOMAIN global_index'
    ]_vars

\* Both cases have happened: an id without a record was given to
\* delete_asset_atomic while the store held another record, and an id with
\* a record was deleted.
C25_Witness ==
    /\ last.op = "delete"
    /\ \/ ~last.found /\ metadata # <<>>
       \/ last.returned /\ last.id \notin DOMAIN metadata /\ metadata # <<>>

\* ------------------------------------------------------------------------
\* Write-back path: a write rejected by the repository
\* ------------------------------------------------------------------------
\* C29: when the repository rejects the write of create_asset, update_asset
\* or delete_asset (a conflict or any other repository error), the call has
\* sent exactly one write request, returns (False, error) without raising,
\* and leaves the repository and the store unchanged.
C29_RejectedWriteNoRetry ==
    [][(last'.op \in WriteBackOps /\ last'.github_called /\ last'.github_out # "ok") =>
        /\ last'.github_writes = 1
        /\ ~last'.ok
        /\ ~last'.raised
        /\ ~last'.store_called
        /\ UNCHANGED <<repo, metadata, category_index, global_index, changed, sync_state>>
    ]_vars

\* ------------------------------------------------------------------------
\* A full sync on a store whose indexes are not exact
\* ------------------------------------------------------------------------
\* C30: from any store state, including one with a Global Summary entry or
\* a Category Index membership for an id without a Stored Asset Record, or a
\* membership in a category other than the record's, a full sync that
\* completes with zero failures (no fault occurring) leaves every record's
\* id in exactly the Category Index of its category and the Global Summary
\* Index with one matching entry per record and no other entry.
C30_SyncRepairsIndexes ==
    (ZeroFailures /\ last.faultfree) => IndexInvariants

\* ------------------------------------------------------------------------
\* C31: a full sync deletes a Stored Asset Record only if no manifest file
\* declaring that id exists in the repository at scan time; a manifest file
\* whose content could not be fetched during the scan does not cause the
\* stored asset of that id to be deleted.  (Stated for the manifest files
\* that pass validation.)
\* ------------------------------------------------------------------------
C31_DeletesOnlyAbsent ==
    SyncReturned =>
        \A id \in (DOMAIN last.existing) \ (DOMAIN metadata) :
            \A p \in DOMAIN repo : ~(repo[p].valid /\ repo[p].id = id)

\* ------------------------------------------------------------------------
\* C32: after create_asset succeeds (the manifest written and the store
\* call made without a fault), the id is a member of exactly one Category
\* Index, also when the store already held a stale Stored Asset Record for
\* that id under a different category, and a following full sync (no fault
\* occurring) leaves it in exactly one.
\* ------------------------------------------------------------------------
C32_CreateOneIndex ==
    /\ (last.op = "create" /\ last.ok /\ last.store_called /\ last.store_out = "ok") =>
           Cardinality(IndexesOf(last.id)) = 1
    /\ (SyncReturned /\ last.faultfree /\ last.prev.op = "create"
          /\ last.prev.ok /\ ~last.prev.store_failed /\ last.prev.id \in DOMAIN metadata) =>
           Cardinality(IndexesOf(last.prev.id)) = 1

\* ------------------------------------------------------------------------
\* C33: every repository commit is eventually reflected in the store by
\* incremental syncs: when incremental_sync has returned (no pass running,
\* no commit since, and no fault in any call so far), the Stored Asset
\* Records are those of the repository, also when the commit landed while a
\* full sync pass was running, after its scan and before it wrote
\* last_sync_time.
\* ------------------------------------------------------------------------
C33_CommitsReflected ==
    (last.op \in {"sync", "skip"} /\ last.caller = "incremental_sync"
        /\ ~last.raised /\ faults = 0) =>
        metadata = SyncedFrom(repo).store.metadata

\* ------------------------------------------------------------------------
\* C34: if a full sync ends with per-asset save failures, a later
\* incremental_sync made with no new repository commit re-attempts the
\* failed assets (it runs a full sync) instead of returning a zero-effect
\* result: last_sync_time has not advanced past the changes that were not
\* applied.
\* ------------------------------------------------------------------------
C34_FailedSavesRetried ==
    [][(last.op = "sync" /\ ~last.raised /\ last.stats.failed > 0
          /\ last'.op \in {"sync", "skip"} /\ last'.faultfree)
        => last'.op = "sync"]_vars

\* ------------------------------------------------------------------------
\* C35: a full sync that aborts because the repository scan fails leaves
\* every Stored Asset Record, every Category Index, the Global Summary
\* Index, the Changed-Assets Queue, last_sync_time and synced_count
\* unchanged; only sync_status may change.
\* ------------------------------------------------------------------------
C35_AbortedScanFrame ==
    [][(last'.op = "sync" /\ last'.raised) =>
          /\ metadata' = metadata
          /\ category_index' = category_index
          /\ global_index' = global_index
          /\ changed' = changed
          /\ sync_state'.last_sync_time = sync_state.last_sync_time
          /\ sync_state'.synced_count = sync_state.synced_count
          /\ repo' = repo]_vars

\* A scan failed over a store that holds a record, a queue entry and a
\* recorded sync time, while the repository no longer holds the asset.
C35_Witness ==
    /\ last.op = "sync"
    /\ last.raised
    /\ metadata # <<>>
    /\ changed # <<>>
    /\ sync_state.last_sync_time # NoTime
    /\ sync_state.synced_count > 0
    /\ AssetIds(fetch_and_parse_all(repo, {})) # DOMAIN metadata

\* ------------------------------------------------------------------------
\* C36: after a full sync writes an update for an existing asset, the Stored
\* Asset Record (as StoredAsset.from_dict reads it back) equals the
\* projection of the current manifest: optional fields (author) that the new
\* manifest no longer carries are absent from the stored record.
\* ------------------------------------------------------------------------
C36_UpdateEqualsProjection ==
    (SyncReturned /\ last.stats.updated > 0 /\ last.stats.failed = 0) =>
        \A asset \in {ConvertedAt(LastAssets, clock)[i] : i \in 1..Len(LastAssets)} :
            from_dict(metadata[asset.id]) = from_dict(to_dict(to_stored_asset(asset)))

\* ------------------------------------------------------------------------
\* C39: the created_at of a Stored Asset Record is set when the record is
\* first created and is unchanged by every later update of that id; only
\* updated_at advances.
\* ------------------------------------------------------------------------
C39_CreatedAtKept ==
    [][(last'.op = "sync")  =>
          \A id \in (DOMAIN metadata) \cap (DOMAIN metadata') :
              metadata'[id].created_at = metadata[id].created_at]_vars

\* ------------------------------------------------------------------------
\* C37: create_asset never overwrites an existing repository file: if a file
\* already exists at the resolved default path (a manifest declaring a
\* different id, or one that fails validation), the call does not replace
\* its content.
\* ------------------------------------------------------------------------
C37_CreateNeverOverwrites ==
    [][(last'.op = "create") =>
          \A p \in DOMAIN repo : p \in DOMAIN repo' /\ repo'[p] = repo[p]]_vars

\* ------------------------------------------------------------------------
\* C38: after a successful update_asset(asset_id, manifest_data, ...), the
\* manifest at the asset's repository path still declares asset_id, so the
\* asset stays resolvable by that id and the store record for asset_id is
\* refreshed (the store call meeting no fault); an "id" field in
\* manifest_data that differs from asset_id is not written to the
\* repository.
\* ------------------------------------------------------------------------
C38_UpdateKeepsId ==
    (last.op = "update" /\ last.ok) =>
        /\ last.path \in DOMAIN repo
        /\ repo[last.path].id = last.id
        /\ asset_exists_in_github(repo, last.id)
        /\ last.store_out = "ok" =>
              /\ last.id \in DOMAIN metadata
              /\ metadata[last.id] = to_stored_asset(Asset(GitHubFile(repo, last.path)))

====
